---- MODULE Spec2Model ----
(***************************************************************************)
(* Freight-quote service (cotacoes-frete-back).                            *)
(*                                                                         *)
(* The model follows src/server.js: the in-memory registry of temporary    *)
(* (bootstrap) tokens with its periodic sweep, the session-bootstrap       *)
(* authentication middleware, and the quote route handlers that delegate   *)
(* to the persistence gateway (a table `cotacoes`).                        *)
(*                                                                         *)
(* Node runs every callback to completion, so the synchronous middleware   *)
(* chain of one request is one step.  A route handler awaits exactly one   *)
(* gateway call and answers from its result; the gateway executes that     *)
(* call atomically, so the handler and its gateway call are one step too.  *)
(* Under Spec a request is handled as it arrives; under SpecConc requests  *)
(* are first accepted (they are in flight together) and then handled in    *)
(* any order, interleaved with the sweep.                                  *)
(***************************************************************************)
EXTENDS Integers, Sequences, FiniteSets, TLC

(***************************************************************************)
(* Bounds of the model.                                                    *)
(***************************************************************************)
MaxTokens   == 2       \* temporary tokens issued in one behaviour
MaxSessions == 2       \* sessions created in one behaviour
MaxRecs     == 2       \* rows inserted in one behaviour
MaxInflight == 2       \* requests in flight together (SpecConc)
TickMs      == 20000   \* the clock advances in steps of TickMs milliseconds
MaxTime     == 60000   \* the clock stops here
MaxQueries  == 3       \* gateway calls counted in one behaviour (SpecCounted)
LiveTime    == 120000  \* the clock of SpecLive stops here (two sweep intervals)

(***************************************************************************)
(* Program constants.                                                      *)
(***************************************************************************)
TokenWindowMs   == 30000    \* server.js:33
SweepIntervalMs == 60000    \* server.js:37
ExpiresIn       == 30       \* server.js:86
DefaultTtlS     == 300      \* cache.js:32, expirationSeconds = 300

Undefined == "undefined"    \* JavaScript's undefined: an absent field or variable
NoSid     == 0              \* a request without a session cookie

VARIABLES
    now,          \* Date.now(), in milliseconds since the server started
    nextSweep,    \* the time at which the setInterval callback is next due
    envSecret,    \* process.env.SECRET_TOKEN
    tempTokens,   \* the Map tempTokens: token -> [createdAt, used]
    issued,       \* number of tokens generated so far (the token's nonce)
    sessions,     \* the session store: sid -> [authenticated, loginTime]
    store,        \* the table cotacoes: row -> record
    rows,         \* number of rows inserted so far (the physical row number)
    inflight,     \* requests accepted and not yet handled (SpecConc)
    reply,        \* the last request handled, with its response
    granted,      \* history: token -> number of sessions granted with it
    raced,        \* history: tokens granted while another request with them was in flight
    modified,     \* history: rows changed by a successful update
    deleted,      \* history: ids for which a DELETE answered 204
    calls,        \* the collaborator calls made for the last request handled
    queries,      \* the call count of a counting persistence gateway (SpecCounted)
    apiEnv,       \* process.env of the API deployment: [JWT_SECRET, API_TOKEN]
    user,         \* req.user of the last request the signed-token gate handled
    redis,        \* cache.js: the client, or null when it is not configured
    cacheStore,   \* the cache backend: key -> [value, expiresAt]
    ret,          \* the last cache call with what it returned
    faults        \* what a watched persistence gateway reported (SpecFaults)

authVars  == <<envSecret, tempTokens, issued, sessions>>
storeVars == <<store, rows>>
histVars  == <<granted, raced, modified, deleted>>
apiVars   == <<apiEnv, user>>
cacheVars == <<redis, cacheStore, ret>>
\* what the portal server (src/server.js) never touches
others    == <<queries, apiVars, cacheVars, faults>>
vars == <<now, nextSweep, envSecret, tempTokens, issued, sessions,
          store, rows, inflight, reply, granted, raced, modified, deleted,
          calls, queries, apiEnv, user, redis, cacheStore, ret, faults>>

(***************************************************************************)
(* JavaScript values.                                                      *)
(***************************************************************************)
NoToken == 0                \* no token in the query string / no header

Tokens == 1..MaxTokens
Sids   == 1..MaxSessions

EmptyObject == [k \in {} |-> Undefined]           \* {}

\* { ...a, ...b }: the fields of b override those of a
Spread(a, b) ==
    [k \in DOMAIN a \cup DOMAIN b |-> IF k \in DOMAIN b THEN b[k] ELSE a[k]]

\* new Date(ms).toISOString(): a fixed-width text whose order is that of ms
toISOString(ms) == [iso |-> ms]

Min(a, b) == IF a <= b THEN a ELSE b

(***************************************************************************)
(* Requests.  path is the list of segments of req.path; the first segment  *)
(* stands for what startsWith() reads.                                     *)
(***************************************************************************)
RootPath     == <<>>
CotacoesPath == <<"api", "cotacoes">>
TokenPath    == <<"api", "auth", "generate-token">>
HealthPath   == <<"health">>
ItemPath(id) == <<"api", "cotacoes", id>>

\* req.originalUrl: the path, then "?" and the query when there is one
originalUrl(req) ==
    IF req.qtoken # NoToken THEN req.path \o <<"?", [token |-> req.qtoken]>> ELSE req.path

\* s.split('?')[0]: what precedes the first "?"
RECURSIVE SplitHead(_)
SplitHead(s) ==
    IF s = <<>> \/ Head(s) = "?" THEN <<>> ELSE <<Head(s)>> \o SplitHead(Tail(s))

\* urlSemToken || '/': the empty text is falsy, and '/' is the root path
urlSemToken(req) ==
    LET u == SplitHead(originalUrl(req)) IN IF u = <<>> THEN RootPath ELSE u

(***************************************************************************)
(* The registry of temporary tokens and its sweep.                         *)
(***************************************************************************)
\* mutant: the window is an hour
ExpiredAfterAnHour(data, t) == t - data.createdAt > 120 * TokenWindowMs

\* now - data.createdAt > 30000
Expired(data, t) == t - data.createdAt > TokenWindowMs

\* mutant: the sweep spares the tokens that were used
SweepUnusedOnly(tokens, t) ==
    [k \in {x \in DOMAIN tokens : ~Expired(tokens[x], t) \/ tokens[x].used} |-> tokens[k]]

\* the body of the setInterval callback
SweepTokens(tokens, t) ==
    [k \in {x \in DOMAIN tokens : ~Expired(tokens[x], t)} |-> tokens[k]]

\* tempTokens.set(tempToken, { createdAt: Date.now(), used: false })
SetToken(tokens, tok, t) ==
    [k \in DOMAIN tokens \cup {tok} |->
        IF k = tok THEN [createdAt |-> t, used |-> FALSE] ELSE tokens[k]]

(***************************************************************************)
(* The authentication middleware.                                          *)
(***************************************************************************)
StaticPrefixes == {"css", "js", "images", "favicon.ico"}

IsPublicPath(path) ==
    \/ Len(path) > 0 /\ Head(path) \in StaticPrefixes
    \/ path = TokenPath
    \/ path = HealthPath

\* mutant: the session counts only while a token is still registered
SessionWhileTokenKept(req) ==
    /\ req.cookie \in DOMAIN sessions /\ sessions[req.cookie].authenticated
    /\ tempTokens # EmptyObject

\* req.session && req.session.authenticated
SessionActive(req) ==
    req.cookie \in DOMAIN sessions /\ sessions[req.cookie].authenticated

\* req.query.token || req.headers['authorization']
PresentedToken(req) ==
    IF req.qtoken # NoToken THEN req.qtoken ELSE req.htoken

\* mutant: the used flag is not read
RedeemableIgnoringUse(token) ==
    /\ token # NoToken
    /\ token \in DOMAIN tempTokens

\* token && tempTokens.has(token) && !tokenData.used
Redeemable(token) ==
    /\ token # NoToken
    /\ token \in DOMAIN tempTokens
    /\ ~tempTokens[token].used

\* mutant: the token is not marked
MarkUsedDropped(tokens, token) == tokens

\* tokenData.used = true
MarkUsed(tokens, token) == [tokens EXCEPT ![token].used = TRUE]

\* mutant: the token is looked at before the session
GateTokenFirst(req) ==
    IF IsPublicPath(req.path) THEN "next"
    ELSE IF Redeemable(PresentedToken(req)) THEN "redirect"
    ELSE IF SessionActive(req) THEN "next"
    ELSE "deny"

GateOutcome(req) ==
    IF IsPublicPath(req.path) THEN "next"
    ELSE IF SessionActive(req) THEN "next"
    ELSE IF Redeemable(PresentedToken(req)) THEN "redirect"
    ELSE "deny"

(***************************************************************************)
(* The persistence gateway: the table cotacoes behind the client calls.    *)
(* A row keeps its physical row number while it exists.                    *)
(***************************************************************************)
\* id: { type: String, required: true, unique: true }: the identifier column
\* carries a unique constraint (the schema the repository declares for the
\* collection; the table behind the REST client is created outside it)
idUnique == TRUE

Matching(st, id) == {r \in DOMAIN st : st[r].id = id}

HasDuplicateId(st) ==
    \E r1, r2 \in DOMAIN st : r1 # r2 /\ st[r1].id = st[r2].id

\* mutant: ascending: true
OrderedAsc(st, s) ==
    \A i \in 1..(Len(s) - 1) : st[s[i]].timestamp.iso <= st[s[i + 1]].timestamp.iso

\* .order('timestamp', { ascending: false })
OrderedDesc(st, s) ==
    \A i \in 1..(Len(s) - 1) : st[s[i]].timestamp.iso >= st[s[i + 1]].timestamp.iso

\* mutant: the listing is a snapshot taken while the table was empty
SelectSnapshot(st) == {<<>>}

\* .select('*').order(...): every row once, newest first; rows of equal
\* timestamp come in an order the gateway chooses
SelectAll(st) ==
    LET n == Cardinality(DOMAIN st)
        orders == {s \in [1..n -> DOMAIN st] :
                      /\ \A i, j \in 1..n : i # j => s[i] # s[j]
                      /\ OrderedDesc(st, s)}
    IN  {[i \in 1..n |-> st[s[i]]] : s \in orders}

\* .insert([novaCotacao]): a unique constraint on id refuses a second row
InsertConflict(st, rec) == idUnique /\ Matching(st, rec.id) # {}

InsertRow(st, r, rec) == [k \in DOMAIN st \cup {r} |-> IF k = r THEN rec ELSE st[k]]

\* .update(patch).eq('id', id): the patch is spread over every matching row
UpdateRows(st, id, patch) ==
    [r \in DOMAIN st |-> IF r \in Matching(st, id) THEN Spread(st[r], patch) ELSE st[r]]

\* a patch that would give two rows one id is refused by the unique constraint
UpdateConflict(st, id, patch) ==
    idUnique /\ HasDuplicateId(UpdateRows(st, id, patch))

\* .delete().eq('id', id): every matching row goes; no match is no error
DeleteRows(st, id) == [r \in DOMAIN st \ Matching(st, id) |-> st[r]]

(***************************************************************************)
(* The quote handlers' own computations.                                   *)
(***************************************************************************)
\* req.body.negocioFechado || false
NegocioFechado(body) ==
    IF "negocioFechado" \in DOMAIN body THEN body.negocioFechado ELSE FALSE

\* mutant: the body is spread last and overrides the server's fields
novaCotacaoBodyLast(body, t) ==
    Spread([id             |-> ToString(t),
            timestamp      |-> toISOString(t),
            negocioFechado |-> NegocioFechado(body)], body)

\* { ...req.body, id: Date.now().toString(), timestamp: new Date().toISOString(),
\*   negocioFechado: req.body.negocioFechado || false }
novaCotacao(body, t) ==
    Spread(body, [id             |-> ToString(t),
                  timestamp      |-> toISOString(t),
                  negocioFechado |-> NegocioFechado(body)])

\* { ...req.body, updatedAt: new Date().toISOString() }
UpdatePatch(body, t) == Spread(body, [updatedAt |-> toISOString(t)])

(***************************************************************************)
(* Inputs.                                                                 *)
(***************************************************************************)
BootSecret == "portal-secret"
Secrets    == {Undefined, BootSecret, "wrong"}      \* req.body.secret

ClientId        == "client-1"                       \* an id chosen by a client
ClientTimestamp == toISOString(1)                   \* a timestamp chosen by a client

Cookies == {NoSid} \cup Sids

Request(method, path, cookie, qtoken, htoken, body) ==
    [method |-> method, path |-> path, cookie |-> cookie,
     qtoken |-> qtoken, htoken |-> htoken, body |-> body]

\* a page load, with the token of the portal's link or without
PageReqs ==
    {Request("GET", RootPath, c, q, NoToken, EmptyObject) :
        c \in Cookies, q \in {NoToken} \cup Tokens}

\* a call of the quote API by the page's script, with or without a token in
\* the Authorization header
ApiReqs(method, paths, bodies, cookies, toks) ==
    {Request(method, p, c, NoToken, h, b) :
        p \in paths, c \in cookies, h \in toks, b \in bodies}

IdParams == {store[r].id : r \in DOMAIN store} \cup deleted \cup {ClientId}
ItemPaths == {ItemPath(id) : id \in IdParams}

PostBodies ==
    { [transportadora |-> "X"],
      [transportadora |-> "X", negocioFechado |-> TRUE, id |-> ClientId,
       timestamp |-> ClientTimestamp, updatedAt |-> ClientTimestamp] }

PutBodies ==
    { [negocioFechado |-> TRUE] } \cup
    { [id |-> x, timestamp |-> ClientTimestamp] : x \in {ClientId} \cup deleted }

\* the requests of the bootstrap flow: page loads and API calls with a token
GateReqs ==
    PageReqs \cup ApiReqs("GET", {CotacoesPath}, {EmptyObject}, Cookies, {NoToken} \cup Tokens)

\* the requests of the quote API: of a client with its cookie, or of a stranger
Callers    == {NoSid} \cup DOMAIN sessions
ListReqs   == ApiReqs("GET", {CotacoesPath}, {EmptyObject}, Callers, {NoToken})
GetReqs    == ApiReqs("GET", ItemPaths, {EmptyObject}, Callers, {NoToken})
PostReqs   == ApiReqs("POST", {CotacoesPath}, PostBodies, Callers, {NoToken})
PutReqs    == ApiReqs("PUT", ItemPaths, PutBodies, Callers, {NoToken})
DeleteReqs == ApiReqs("DELETE", ItemPaths, {EmptyObject}, Callers, {NoToken})

(***************************************************************************)
(* Responses.                                                              *)
(***************************************************************************)
Response(req, status, kind, body) ==
    [req |-> req, status |-> status, kind |-> kind, body |-> body]

Json(req, status, body) == Response(req, status, "json", body)

\* res.status(204).end()
Empty(req, status) == Response(req, status, "empty", <<>>)

\* res.redirect(url): 302 Found with a Location header
Redirect(req, url) == Response(req, 302, "redirect", [location |-> url])

\* res.status(401).send(`<!DOCTYPE html> ...`)
AccessDeniedPage(req) == Response(req, 401, "html", [title |-> "Acesso Negado"])

NoReply ==
    Response(Request("", RootPath, NoSid, NoToken, NoToken, EmptyObject), 0, "none", <<>>)

(***************************************************************************)
(* Initial state: the process has started, nothing was requested yet.      *)
(***************************************************************************)
NoUser == [username |-> Undefined, name |-> Undefined, isAdmin |-> FALSE]
Null   == "null"             \* JavaScript's null
NoRet  == [call |-> "none", key |-> "", value |-> Null, threw |-> FALSE, raised |-> FALSE]

\* no gateway call was watched yet
NoFaults == [last |-> FALSE, seen |-> FALSE]

\* src/server.js requires neither middleware/auth.js nor cache.js: in the
\* portal server the signed-token gate and the cache module are not loaded,
\* and no counting gateway is attached
Detached ==
    /\ queries = 0
    /\ apiEnv = [JWT_SECRET |-> Undefined, API_TOKEN |-> Undefined]
    /\ user = NoUser
    /\ redis = FALSE
    /\ cacheStore = EmptyObject
    /\ ret = NoRet
    /\ faults = NoFaults

Started ==
    /\ now = 0
    /\ nextSweep = SweepIntervalMs
    /\ tempTokens = EmptyObject
    /\ issued = 0
    /\ sessions = EmptyObject
    /\ store = EmptyObject
    /\ rows = 0
    /\ inflight = EmptyObject
    /\ reply = NoReply
    /\ granted = [t \in Tokens |-> 0]
    /\ raced = {}
    /\ modified = {}
    /\ deleted = {}
    /\ calls = {}

Init ==
    /\ Started
    /\ envSecret \in {Undefined, BootSecret}
    /\ Detached

(***************************************************************************)
(* Timers.                                                                 *)
(***************************************************************************)
\* time passes, up to the moment the sweep is due
Tick ==
    /\ now < nextSweep
    /\ Min(now + TickMs, nextSweep) <= MaxTime
    /\ now' = Min(now + TickMs, nextSweep)
    /\ UNCHANGED <<nextSweep, authVars, storeVars, inflight, reply, histVars, calls, others>>

\* setInterval(() => { ... }, 60000)
Sweep ==
    /\ now >= nextSweep
    /\ tempTokens' = SweepTokens(tempTokens, now)
    /\ nextSweep' = nextSweep + SweepIntervalMs
    /\ UNCHANGED <<now, envSecret, issued, sessions, storeVars, inflight, reply, histVars, calls, others>>

(***************************************************************************)
(* POST /api/auth/generate-token (registered before the middleware).       *)
(***************************************************************************)
GenerateTokenReq(secret) ==
    Request("POST", TokenPath, NoSid, NoToken, NoToken, [secret |-> secret])

\* `TEMP-${Date.now()}-${Math.random()...}`: a text no earlier token has;
\* the model names it by the number of the issue
tempToken == issued + 1

GenerateToken(secret) ==
    /\ IF secret = envSecret
       THEN /\ issued < MaxTokens
            /\ tempTokens' = SetToken(tempTokens, tempToken, now)
            /\ issued' = issued + 1
            /\ reply' = Json(GenerateTokenReq(secret), 200,
                             [success |-> TRUE, token |-> tempToken, expiresIn |-> ExpiresIn])
       ELSE /\ reply' = Json(GenerateTokenReq(secret), 401,
                             [success |-> FALSE, error |-> "Nao autorizado"])
            /\ UNCHANGED <<tempTokens, issued>>
    /\ calls' = {}
    /\ UNCHANGED <<now, nextSweep, envSecret, sessions, storeVars, inflight, histVars, others>>

(***************************************************************************)
(* The authentication middleware's own answers.                            *)
(***************************************************************************)
\* the session express-session creates for a request that has none
NewSid == Cardinality(DOMAIN sessions) + 1

\* req.session.authenticated = true; req.session.loginTime = new Date().toISOString()
Authenticate(sess, sid, t) ==
    [k \in DOMAIN sess \cup {sid} |->
        IF k = sid THEN [authenticated |-> TRUE, loginTime |-> toISOString(t)] ELSE sess[k]]

\* the connections in flight whose request presents the token
Presenting(token) == {c \in DOMAIN inflight : PresentedToken(inflight[c]) = token}

\* lines 117-130: the token is valid, the session is created, the token is spent
RedeemToken(req) ==
    /\ GateOutcome(req) = "redirect"
    /\ NewSid <= MaxSessions
    /\ sessions' = Authenticate(sessions, NewSid, now)
    /\ tempTokens' = MarkUsed(tempTokens, PresentedToken(req))
    /\ granted' = [granted EXCEPT ![PresentedToken(req)] = @ + 1]
    /\ raced' = IF Cardinality(Presenting(PresentedToken(req))) >= 2
                THEN raced \cup {PresentedToken(req)} ELSE raced
    /\ reply' = Redirect(req, urlSemToken(req))
    /\ calls' = {}
    /\ UNCHANGED <<now, nextSweep, envSecret, issued, storeVars, modified, deleted>>

\* lines 133-190: no session and no valid token
Block(req) ==
    /\ GateOutcome(req) = "deny"
    /\ reply' = AccessDeniedPage(req)
    /\ calls' = {}
    /\ UNCHANGED <<now, nextSweep, authVars, storeVars, histVars>>

(***************************************************************************)
(* Routes behind the middleware.                                           *)
(***************************************************************************)
\* app.get('/')
Root(req) ==
    /\ GateOutcome(req) = "next"
    /\ req.method = "GET" /\ req.path = RootPath
    /\ reply' = Json(req, 200, [status        |-> "online",
                                sessionActive |-> SessionActive(req),
                                timestamp     |-> toISOString(now)])
    /\ calls' = {}
    /\ UNCHANGED <<now, nextSweep, authVars, storeVars, histVars>>

\* mutant: the failure body has no error field
MessageBody(msg) == [message |-> msg]

\* { error: '...' } (the details field, error.message, is not modelled)
ErrorBody(msg) == [error |-> msg]

(* The route handlers are the same in the portal server (src/server.js)    *)
(* and in the API server (src/unnamed/part_000): each makes one gateway     *)
(* call, recorded in calls, and answers from its result.                    *)
\* app.get('/api/cotacoes', async (req, res) => ...)
ListarCotacoes(req, fail) ==
    /\ req.method = "GET" /\ req.path = CotacoesPath
    /\ calls' = {"select"}
    /\ IF fail
       THEN reply' = Json(req, 500, ErrorBody("Erro ao buscar cotacoes"))
       ELSE \E data \in SelectAll(store) : reply' = Json(req, 200, data)
    /\ UNCHANGED <<now, nextSweep, authVars, storeVars, histVars>>

\* app.get('/api/cotacoes/:id', ...): .single() wants exactly one row (PGRST116)
BuscarCotacao(req, fail) ==
    /\ req.method = "GET" /\ Len(req.path) = 3
    /\ calls' = {"select"}
    /\ LET found == Matching(store, req.path[3]) IN
       IF fail
       THEN reply' = Json(req, 500, ErrorBody("Erro ao buscar cotacao"))
       ELSE IF Cardinality(found) # 1
       THEN reply' = Json(req, 404, ErrorBody("Cotacao nao encontrada"))
       ELSE \E r \in found : reply' = Json(req, 200, store[r])
    /\ UNCHANGED <<now, nextSweep, authVars, storeVars, histVars>>

\* app.post('/api/cotacoes', ...)
CriarCotacao(req, fail) ==
    /\ req.method = "POST" /\ req.path = CotacoesPath
    /\ calls' = {"insert"}
    /\ rows < MaxRecs
    /\ LET nova == novaCotacao(req.body, now) IN
       IF fail \/ InsertConflict(store, nova)
       THEN /\ reply' = Json(req, 500, ErrorBody("Erro ao criar cotacao"))
            /\ UNCHANGED <<store, rows>>
       ELSE /\ store' = InsertRow(store, rows + 1, nova)
            /\ rows' = rows + 1
            /\ reply' = Json(req, 201, nova)
    /\ UNCHANGED <<now, nextSweep, authVars, histVars>>

\* app.put('/api/cotacoes/:id', ...)
AtualizarCotacao(req, fail) ==
    /\ req.method = "PUT" /\ Len(req.path) = 3
    /\ calls' = {"update"}
    /\ LET id    == req.path[3]
           patch == UpdatePatch(req.body, now)
           found == Matching(store, id)
       IN  IF fail \/ UpdateConflict(store, id, patch)
           THEN /\ reply' = Json(req, 500, ErrorBody("Erro ao atualizar cotacao"))
                /\ UNCHANGED <<store, modified>>
           ELSE IF Cardinality(found) # 1
           THEN /\ reply' = Json(req, 404, ErrorBody("Cotacao nao encontrada"))
                /\ UNCHANGED <<store, modified>>
           ELSE /\ store' = UpdateRows(store, id, patch)
                /\ modified' = modified \cup found
                /\ \E r \in found : reply' = Json(req, 200, store'[r])
    /\ UNCHANGED <<now, nextSweep, authVars, rows, granted, raced, deleted>>

\* app.delete('/api/cotacoes/:id', ...)
ExcluirCotacao(req, fail) ==
    /\ req.method = "DELETE" /\ Len(req.path) = 3
    /\ calls' = {"delete"}
    /\ LET id    == req.path[3]
           found == Matching(store, id)
       IN  IF fail
           THEN /\ reply' = Json(req, 500, ErrorBody("Erro ao excluir cotacao"))
                /\ UNCHANGED <<store, modified, deleted>>
           ELSE /\ store' = DeleteRows(store, id)
                /\ modified' = modified \ found
                /\ deleted' = IF \E r \in found : r \notin modified
                              THEN deleted \cup {id} ELSE deleted
                /\ reply' = Empty(req, 204)
    /\ UNCHANGED <<now, nextSweep, authVars, rows, granted, raced>>

\* the portal server's routes: registered after the authentication middleware
Listar(req, fail)    == GateOutcome(req) = "next" /\ ListarCotacoes(req, fail)
Buscar(req, fail)    == GateOutcome(req) = "next" /\ BuscarCotacao(req, fail)
Criar(req, fail)     == GateOutcome(req) = "next" /\ CriarCotacao(req, fail)
Atualizar(req, fail) == GateOutcome(req) = "next" /\ AtualizarCotacao(req, fail)
Excluir(req, fail)   == GateOutcome(req) = "next" /\ ExcluirCotacao(req, fail)

(***************************************************************************)
(* Spec: the bootstrap flow.  Every request is handled as it arrives.      *)
(***************************************************************************)
IssueToken == \E secret \in Secrets : GenerateToken(secret)
Redeem     == \E req \in GateReqs : RedeemToken(req) /\ UNCHANGED <<inflight, others>>
Deny       == \E req \in GateReqs : Block(req) /\ UNCHANGED <<inflight, others>>
GetRoot    == \E req \in PageReqs : Root(req) /\ UNCHANGED <<inflight, others>>
GetAll     == \E req \in GateReqs, fail \in BOOLEAN : Listar(req, fail) /\ UNCHANGED <<inflight, others>>

Next ==
    \/ Tick
    \/ Sweep
    \/ IssueToken
    \/ Redeem
    \/ Deny
    \/ GetRoot
    \/ GetAll

Spec == Init /\ [][Next]_vars

(***************************************************************************)
(* SpecQuotes: the quote API, from the state in which a first client has   *)
(* just redeemed a token at time 0 (a state that Spec reaches).              *)
(***************************************************************************)
LoginReq == Request("GET", RootPath, NoSid, 1, NoToken, EmptyObject)

InitLoggedIn ==
    /\ now = 0
    /\ nextSweep = SweepIntervalMs
    /\ envSecret = BootSecret
    /\ tempTokens = MarkUsed(SetToken(EmptyObject, 1, 0), 1)
    /\ issued = 1
    /\ sessions = Authenticate(EmptyObject, 1, 0)
    /\ store = EmptyObject
    /\ rows = 0
    /\ inflight = EmptyObject
    /\ reply = Redirect(LoginReq, RootPath)
    /\ granted = [t \in Tokens |-> IF t = 1 THEN 1 ELSE 0]
    /\ raced = {}
    /\ modified = {}
    /\ deleted = {}
    /\ calls = {}
    /\ Detached

\* a caller without a session is turned away whatever the route: a read and a
\* write stand for the routes
DenyQuote == \E req \in ListReqs \cup PostReqs : Block(req) /\ UNCHANGED <<inflight, others>>
List      == \E req \in ListReqs, fail \in BOOLEAN : Listar(req, fail) /\ UNCHANGED <<inflight, others>>
GetOne    == \E req \in GetReqs, fail \in BOOLEAN : Buscar(req, fail) /\ UNCHANGED <<inflight, others>>
Post      == \E req \in PostReqs, fail \in BOOLEAN : Criar(req, fail) /\ UNCHANGED <<inflight, others>>
Put       == \E req \in PutReqs, fail \in BOOLEAN : Atualizar(req, fail) /\ UNCHANGED <<inflight, others>>
Delete    == \E req \in DeleteReqs, fail \in BOOLEAN : Excluir(req, fail) /\ UNCHANGED <<inflight, others>>

NextQuotes ==
    \/ Tick
    \/ Sweep
    \/ DenyQuote
    \/ List
    \/ GetOne
    \/ Post
    \/ Put
    \/ Delete

SpecQuotes == InitLoggedIn /\ [][NextQuotes]_vars

(***************************************************************************)
(* SpecConc: requests in flight together.  A request is accepted (its      *)
(* connection is open, its callback is queued) and handled later; the      *)
(* event loop runs the queued callbacks and the sweep in any order, each   *)
(* to completion.                                                          *)
(***************************************************************************)
Conns == 1..MaxInflight

\* the connection takes the first free slot
Accept(c, req) ==
    /\ c \notin DOMAIN inflight
    /\ \A k \in Conns : k < c => k \in DOMAIN inflight
    /\ inflight' = [k \in DOMAIN inflight \cup {c} |-> IF k = c THEN req ELSE inflight[k]]
    /\ UNCHANGED <<now, nextSweep, authVars, storeVars, reply, histVars, calls, others>>

Done(c) == inflight' = [k \in DOMAIN inflight \ {c} |-> inflight[k]]

\* page loads of visitors without a session, each with a token in its link
ConcReqs ==
    {Request("GET", RootPath, NoSid, q, NoToken, EmptyObject) : q \in Tokens}

Arrive     == \E c \in Conns, req \in ConcReqs : Accept(c, req)
ConcRedeem == \E c \in DOMAIN inflight : RedeemToken(inflight[c]) /\ Done(c) /\ UNCHANGED others
ConcDeny   == \E c \in DOMAIN inflight : Block(inflight[c]) /\ Done(c) /\ UNCHANGED others

NextConc ==
    \/ Tick
    \/ Sweep
    \/ IssueToken
    \/ Arrive
    \/ ConcRedeem
    \/ ConcDeny

\* the deployment with SECRET_TOKEN configured
InitConfigured == Init /\ envSecret = BootSecret

SpecConc == InitConfigured /\ [][NextConc]_vars

(***************************************************************************)
(* The signed-token gate (src/middleware/auth.js; src/unnamed/part_002 is  *)
(* its other version) and the API server that mounts it on /api/cotacoes   *)
(* (src/unnamed/part_000, second file).                                    *)
(***************************************************************************)
JwtKey       == "jwt-key"           \* a value of JWT_SECRET
ApiTokenText == "api-token"         \* a value of API_TOKEN

ApiEnvs ==
    {[JWT_SECRET |-> j, API_TOKEN |-> a] :
        j \in {Undefined, JwtKey}, a \in {Undefined, ApiTokenText}}

\* const SECRET_KEY = process.env.JWT_SECRET || process.env.API_TOKEN
SECRET_KEY(env) ==
    IF env.JWT_SECRET # Undefined THEN env.JWT_SECRET ELSE env.API_TOKEN

\* a token is a text: a signed token (its signing key, its exp claim in
\* seconds, its identity claims) or any other text
Jwt(key, exp, claims) ==
    [jwt |-> TRUE, key |-> key, exp |-> exp, claims |-> claims, text |-> ""]
Opaque(text) ==
    [jwt |-> FALSE, key |-> "", exp |-> 0, claims |-> NoUser, text |-> text]

AnaClaims   == [username |-> "ana", name |-> "Ana", isAdmin |-> FALSE]
AdminClaims == [username |-> "root", name |-> "Root", isAdmin |-> TRUE]
ExpSoonS    == 30                   \* an exp claim 30 seconds after the start
ExpLateS    == 3600                 \* an exp claim an hour after the start

\* mutant: jwt.decode(token), the claims are read without any verification
jwtDecode(token, secret, t) ==
    IF ~token.jwt THEN [ok |-> FALSE, error |-> "jwt malformed", decoded |-> NoUser]
    ELSE [ok |-> TRUE, error |-> "", decoded |-> token.claims]

\* jwt.verify(token, secretOrPublicKey): the decoded claims, or an error
jwtVerify(token, secret, t) ==
    IF ~token.jwt THEN [ok |-> FALSE, error |-> "jwt malformed", decoded |-> NoUser]
    ELSE IF secret = Undefined
    THEN [ok |-> FALSE, error |-> "secret or public key must be provided", decoded |-> NoUser]
    ELSE IF token.key # secret
    THEN [ok |-> FALSE, error |-> "invalid signature", decoded |-> NoUser]
    ELSE IF t \div 1000 >= token.exp
    THEN [ok |-> FALSE, error |-> "jwt expired", decoded |-> NoUser]
    ELSE [ok |-> TRUE, error |-> "", decoded |-> token.claims]

\* req.headers.authorization: absent, or a text with or without 'Bearer '
NoHeader == [present |-> FALSE, bearer |-> FALSE, token |-> Opaque("")]
Header(bearer, token) == [present |-> TRUE, bearer |-> bearer, token |-> token]

\* !authHeader: the header is absent or the empty text
HeaderMissing(h) == ~h.present \/ (~h.bearer /\ h.token = Opaque(""))

\* authHeader.startsWith('Bearer ') ? authHeader.slice(7) : authHeader
BearerToken(h) == h.token

\* token === process.env.API_TOKEN
IsApiToken(token, env) == ~token.jwt /\ token.text = env.API_TOKEN

ApiUser == [username |-> "api", name |-> "API User", isAdmin |-> TRUE]

GateAnswer(next, status, error, usr) ==
    [next |-> next, status |-> status, error |-> error, user |-> usr]

\* function verificarAutenticacao(req, res, next)
verificarAutenticacao(req, env, t) ==
    LET h == req.authorization
        v == jwtVerify(BearerToken(h), SECRET_KEY(env), t)
    IN  IF HeaderMissing(h) THEN GateAnswer(FALSE, 401, "Token nao fornecido", NoUser)
        ELSE IF BearerToken(h) = Opaque("") THEN GateAnswer(FALSE, 401, "Token nao fornecido", NoUser)
        ELSE IF v.ok THEN GateAnswer(TRUE, 0, "", v.decoded)
        ELSE IF IsApiToken(BearerToken(h), env) THEN GateAnswer(TRUE, 0, "", ApiUser)
        ELSE GateAnswer(FALSE, 403, "Token invalido ou expirado", NoUser)

ApiTokens ==
    { Jwt(JwtKey, ExpLateS, AnaClaims), Jwt(JwtKey, ExpSoonS, AnaClaims),
      Jwt(ApiTokenText, ExpLateS, AdminClaims),
      Opaque(ApiTokenText), Opaque("garbage"), Opaque("") }

AuthHeaders ==
    {NoHeader} \cup {Header(TRUE, tk) : tk \in ApiTokens}
               \cup {Header(FALSE, Opaque(ApiTokenText)), Header(FALSE, Opaque(""))}

\* a request to the API server
ApiRequest(method, path, h, body) ==
    [method |-> method, path |-> path, cookie |-> NoSid, qtoken |-> NoToken,
     htoken |-> NoToken, body |-> body, authorization |-> h]

\* the routes of one record are called with a signed token or the static token
ItemHeaders ==
    {Header(TRUE, Jwt(JwtKey, ExpLateS, AnaClaims)), Header(TRUE, Opaque(ApiTokenText))}

ApiListReqs   == {ApiRequest("GET", CotacoesPath, h, EmptyObject) : h \in AuthHeaders}
ApiPostReqs   == {ApiRequest("POST", CotacoesPath, h, [transportadora |-> "X"]) : h \in AuthHeaders}
ApiItemPaths  == {ItemPath(store[r].id) : r \in DOMAIN store} \cup {ItemPath(ClientId)}
ApiGetReqs    == {ApiRequest("GET", p, h, EmptyObject) : p \in ApiItemPaths, h \in ItemHeaders}
ApiPutReqs    == {ApiRequest("PUT", p, h, [negocioFechado |-> TRUE]) : p \in ApiItemPaths, h \in ItemHeaders}
ApiDeleteReqs == {ApiRequest("DELETE", p, h, EmptyObject) : p \in ApiItemPaths, h \in ItemHeaders}

\* mutant: the gate answers and, its return missing, still calls next: the
\* create handler runs for the rejected request
ApiRejectAndNext(req) ==
    LET g == verificarAutenticacao(req, apiEnv, now) IN
    /\ ~g.next
    /\ reply' = Json(req, g.status, ErrorBody(g.error))
    /\ user' = NoUser
    /\ IF req.method = "POST" /\ rows < MaxRecs /\ ~InsertConflict(store, novaCotacao(req.body, now))
       THEN /\ store' = InsertRow(store, rows + 1, novaCotacao(req.body, now))
            /\ rows' = rows + 1
            /\ calls' = {"insert"}
       ELSE /\ calls' = {}
            /\ UNCHANGED storeVars
    /\ UNCHANGED <<now, nextSweep, authVars, histVars>>

\* app.use('/api/cotacoes', verificarAutenticacao): the gate answers 401 or
\* 403 itself and does not call next
ApiReject(req) ==
    LET g == verificarAutenticacao(req, apiEnv, now) IN
    /\ ~g.next
    /\ reply' = Json(req, g.status, ErrorBody(g.error))
    /\ user' = NoUser
    /\ calls' = {}
    /\ UNCHANGED <<now, nextSweep, authVars, storeVars, histVars>>

\* the gate sets req.user and calls next: the route handler runs
ApiPass(req) ==
    LET g == verificarAutenticacao(req, apiEnv, now) IN
    /\ g.next
    /\ user' = g.user

ApiFrame == UNCHANGED <<inflight, queries, apiEnv, cacheVars, faults>>

ApiDeny   == \E req \in ApiListReqs \cup ApiPostReqs : ApiReject(req) /\ ApiFrame
ApiList   == \E req \in ApiListReqs, fail \in BOOLEAN :
                 ApiPass(req) /\ ListarCotacoes(req, fail) /\ ApiFrame
ApiGetOne == \E req \in ApiGetReqs, fail \in BOOLEAN :
                 ApiPass(req) /\ BuscarCotacao(req, fail) /\ ApiFrame
ApiPost   == \E req \in ApiPostReqs, fail \in BOOLEAN :
                 ApiPass(req) /\ CriarCotacao(req, fail) /\ ApiFrame
ApiPut    == \E req \in ApiPutReqs, fail \in BOOLEAN :
                 ApiPass(req) /\ AtualizarCotacao(req, fail) /\ ApiFrame
ApiDelete == \E req \in ApiDeleteReqs, fail \in BOOLEAN :
                 ApiPass(req) /\ ExcluirCotacao(req, fail) /\ ApiFrame

\* the portal server stands in front of the same table: a caller without a
\* session is turned away by its middleware
PortalDeny == \E req \in ListReqs \cup PostReqs : Block(req) /\ UNCHANGED <<inflight, others>>

NextApi ==
    \/ Tick
    \/ ApiDeny
    \/ ApiList
    \/ ApiGetOne
    \/ ApiPost
    \/ ApiPut
    \/ ApiDelete
    \/ PortalDeny

\* auth.js:5-9: a missing SECRET_KEY is logged and the module loads
InitApi ==
    /\ Started
    /\ envSecret = BootSecret
    /\ queries = 0
    /\ apiEnv \in ApiEnvs
    /\ user = NoUser
    /\ redis = FALSE
    /\ cacheStore = EmptyObject
    /\ ret = NoRet
    /\ faults = NoFaults

SpecApi == InitApi /\ [][NextApi]_vars

(***************************************************************************)
(* SpecCache: the cache module (src/cache.js; src/unnamed/part_004 is its   *)
(* other version) called by any caller, over a backend that keeps entries  *)
(* until they expire and that may fail on any command.                     *)
(***************************************************************************)
CacheKeys   == {"cotacoes:all", "cotacoes:1"}
CacheValues == {"[]", "[q1]"}
TtlChoices  == {DefaultTtlS, ExpiresIn}            \* expirationSeconds

\* a backend command: it throws when the backend is down
Command(down, value) == [threw |-> down, value |-> value]

\* the entries the backend still holds at time t
Live(cs, t) == {k \in DOMAIN cs : t < cs[k].expiresAt}

\* redis.get(key): null for a key that is absent or expired
redisGet(key, down) ==
    Command(down, IF key \in Live(cacheStore, now) THEN cacheStore[key].value ELSE Null)

\* redis.set(key, value, { ex: expirationSeconds })
redisSet(cs, key, value, ex, t) ==
    [k \in DOMAIN cs \cup {key} |->
        IF k = key THEN [value |-> value, expiresAt |-> t + ex * 1000] ELSE cs[k]]

\* redis.del(...keys)
redisDel(cs, keys) == [k \in DOMAIN cs \ keys |-> cs[k]]

\* mutant: every key is returned, whatever the pattern
redisKeysAll(cs, pattern, t) == Live(cs, t)

\* redis.keys(pattern): 'cotacoes:*' matches every key of the model, any
\* other pattern matches the key of that name
redisKeys(cs, pattern, t) ==
    IF pattern = "cotacoes:*" THEN Live(cs, t) ELSE Live(cs, t) \cap {pattern}

\* mutant: the call is made outside the try block
Uncaught(call, key, cmd, value, fallback) ==
    [call |-> call, key |-> key, value |-> IF cmd.threw THEN Null ELSE value,
     threw |-> cmd.threw, raised |-> cmd.threw]

\* try { await <command>; return value } catch (error) { return fallback }
TryCatch(call, key, cmd, value, fallback) ==
    [call |-> call, key |-> key, value |-> IF cmd.threw THEN fallback ELSE value,
     threw |-> cmd.threw, raised |-> FALSE]

\* if (!redis) return <fallback>: no command is sent
Disabled(call, key, fallback) ==
    /\ ret' = [call |-> call, key |-> key, value |-> fallback, threw |-> FALSE, raised |-> FALSE]
    /\ calls' = {}
    /\ UNCHANGED cacheStore

\* what a cache call leaves alone
CacheFrame ==
    UNCHANGED <<now, nextSweep, authVars, storeVars, inflight, reply, histVars,
                queries, apiVars, redis, faults>>

\* async function getCache(key)
getCache(key, down) ==
    /\ IF ~redis THEN Disabled("getCache", key, Null)
       ELSE LET cmd == redisGet(key, down) IN
            /\ ret' = TryCatch("getCache", key, cmd, cmd.value, Null)
            /\ calls' = {"redis.get"}
            /\ UNCHANGED cacheStore
    /\ CacheFrame

\* async function setCache(key, value, expirationSeconds = 300)
setCache(key, value, ex, down) ==
    /\ IF ~redis THEN Disabled("setCache", key, "false")
       ELSE LET cmd == Command(down, "OK") IN
            /\ ret' = TryCatch("setCache", key, cmd, "true", "false")
            /\ calls' = {"redis.set"}
            /\ cacheStore' = IF down THEN cacheStore
                              ELSE redisSet(cacheStore, key, value, ex, now)
    /\ CacheFrame

\* cache.js, async function clearCache(pattern): only the main key is deleted
clearCache(pattern, down) ==
    /\ IF ~redis THEN Disabled("clearCache", pattern, "false")
       ELSE LET cmd == Command(down, "1") IN
            /\ ret' = TryCatch("clearCache", pattern, cmd, "true", "false")
            /\ calls' = {"redis.del"}
            /\ cacheStore' = IF down THEN cacheStore
                              ELSE redisDel(cacheStore, {"cotacoes:all"})
    /\ CacheFrame

\* if (pattern): null, undefined and the empty text are falsy
Truthy(v) == v \notin {Null, Undefined, ""}

\* part_004, async function clearCache(pattern = null): the keys that match
\* the pattern are deleted, or the whole database when the pattern is falsy
clearCachePattern(pattern, down) ==
    /\ IF ~redis THEN Disabled("clearCache", pattern, "false")
       ELSE LET cmd  == Command(down, "1")
                keys == redisKeys(cacheStore, pattern, now)
            IN  /\ ret' = TryCatch("clearCache", pattern, cmd, "true", "false")
                /\ calls' = IF ~Truthy(pattern) THEN {"redis.flushdb"}
                            ELSE IF keys = {} \/ down THEN {"redis.keys"}
                            ELSE {"redis.keys", "redis.del"}
                /\ cacheStore' = IF down THEN cacheStore
                                  ELSE IF ~Truthy(pattern) THEN EmptyObject
                                  ELSE redisDel(cacheStore, keys)
    /\ CacheFrame

\* async function healthCheck()
healthCheck(down) ==
    /\ IF ~redis THEN Disabled("healthCheck", "", "false")
       ELSE LET cmd == Command(down, "PONG") IN
            /\ ret' = TryCatch("healthCheck", "", cmd, "true", "false")
            /\ calls' = {"redis.ping"}
            /\ UNCHANGED cacheStore
    /\ CacheFrame

Patterns == {Null, "", "cotacoes:*", "cotacoes:all"}

GetCache     == \E k \in CacheKeys, down \in BOOLEAN : getCache(k, down)
SetCache     == \E k \in CacheKeys, v \in CacheValues, ex \in TtlChoices, down \in BOOLEAN :
                    setCache(k, v, ex, down)
ClearCache   == \E p \in Patterns, down \in BOOLEAN : clearCache(p, down)
ClearPattern == \E p \in Patterns, down \in BOOLEAN : clearCachePattern(p, down)
HealthCheck  == \E down \in BOOLEAN : healthCheck(down)

NextCache ==
    \/ Tick
    \/ GetCache
    \/ SetCache
    \/ ClearCache
    \/ ClearPattern
    \/ HealthCheck

\* cache.js:6-18: the client exists when both variables are set and its
\* constructor did not throw; otherwise redis stays null and a warning is logged
InitCache ==
    /\ Started
    /\ envSecret = BootSecret
    /\ queries = 0
    /\ apiEnv = [JWT_SECRET |-> Undefined, API_TOKEN |-> Undefined]
    /\ user = NoUser
    /\ redis \in BOOLEAN
    /\ cacheStore = EmptyObject
    /\ ret = NoRet
    /\ faults = NoFaults

SpecCache == InitCache /\ [][NextCache]_vars

(***************************************************************************)
(* SpecCounted: the quote API of the portal server with a persistence      *)
(* gateway that counts the calls it receives.                              *)
(***************************************************************************)
GatewayOps == {"select", "insert", "update", "delete"}

\* the counting gateway: one more call when the handler called it
Counted ==
    /\ queries < MaxQueries
    /\ queries' = IF calls' \cap GatewayOps # {} THEN queries + 1 ELSE queries
    /\ UNCHANGED <<inflight, apiVars, cacheVars, faults>>

CountedList   == \E req \in ListReqs, fail \in BOOLEAN : Listar(req, fail) /\ Counted
CountedGetOne == \E req \in GetReqs, fail \in BOOLEAN : Buscar(req, fail) /\ Counted
CountedPost   == \E req \in PostReqs, fail \in BOOLEAN : Criar(req, fail) /\ Counted
CountedPut    == \E req \in PutReqs, fail \in BOOLEAN : Atualizar(req, fail) /\ Counted
CountedDelete == \E req \in DeleteReqs, fail \in BOOLEAN : Excluir(req, fail) /\ Counted

NextCounted ==
    \/ Tick
    \/ CountedList
    \/ CountedGetOne
    \/ CountedPost
    \/ CountedPut
    \/ CountedDelete

SpecCounted == InitLoggedIn /\ [][NextCounted]_vars

(***************************************************************************)
(* SpecProbe: the portal server's middleware seen by probes and public     *)
(* requests (HEAD /api/cotacoes, GET /health, a static asset), beside the  *)
(* bootstrap flow and the requests of a session.                           *)
(***************************************************************************)
StaticPath == <<"css", "style.css">>

\* a request without token, with any cookie
PlainReqs(method, path) ==
    {Request(method, path, c, NoToken, NoToken, EmptyObject) : c \in Cookies}

HeadReqs   == PlainReqs("HEAD", CotacoesPath)
HealthReqs == PlainReqs("GET", HealthPath)
StaticReqs == PlainReqs("GET", StaticPath)

\* app.head('/api/cotacoes', (req, res) => { res.status(200).end(); }),
\* registered after the authentication middleware
HeadCotacoes(req) ==
    /\ GateOutcome(req) = "next"
    /\ req.method = "HEAD" /\ req.path = CotacoesPath
    /\ reply' = Empty(req, 200)
    /\ calls' = {}
    /\ UNCHANGED <<now, nextSweep, authVars, storeVars, histVars>>

\* app.get('/health', ...): one count query, answered 200 either way
Health(req, fail) ==
    /\ GateOutcome(req) = "next"
    /\ req.method = "GET" /\ req.path = HealthPath
    /\ calls' = {"select"}
    /\ reply' = Json(req, 200, [status    |-> IF fail THEN "unhealthy" ELSE "healthy",
                                database  |-> IF fail THEN "disconnected" ELSE "connected",
                                timestamp |-> toISOString(now)])
    /\ UNCHANGED <<now, nextSweep, authVars, storeVars, histVars>>

\* the last app.use: no route is registered for the path (the server mounts
\* no static directory)
NotFound(req) ==
    /\ GateOutcome(req) = "next"
    /\ req.path = StaticPath
    /\ reply' = Json(req, 404, ErrorBody("Rota nao encontrada"))
    /\ calls' = {}
    /\ UNCHANGED <<now, nextSweep, authVars, storeVars, histVars>>

ProbeHead   == \E req \in HeadReqs : HeadCotacoes(req) /\ UNCHANGED <<inflight, others>>
ProbeDeny   == \E req \in HeadReqs : Block(req) /\ UNCHANGED <<inflight, others>>
ProbeHealth == \E req \in HealthReqs, fail \in BOOLEAN : Health(req, fail) /\ UNCHANGED <<inflight, others>>
ProbeStatic == \E req \in StaticReqs : NotFound(req) /\ UNCHANGED <<inflight, others>>

NextProbe ==
    \/ Tick
    \/ Sweep
    \/ IssueToken
    \/ Redeem
    \/ Deny
    \/ GetRoot
    \/ GetAll
    \/ ProbeHead
    \/ ProbeDeny
    \/ ProbeHealth
    \/ ProbeStatic

SpecProbe == Init /\ [][NextProbe]_vars

(***************************************************************************)
(* SpecFaults: the quote API of the portal server over a persistence       *)
(* gateway whose reports are watched: faults.last tells whether the call   *)
(* of the last request came back with an error other than PGRST116 (no     *)
(* row), faults.seen whether any call so far did.                          *)
(***************************************************************************)
\* const { data, error } = await supabase...: error is set and its code is not
\* PGRST116, because the gateway is unreachable or a constraint refused the write
GatewayFailed(req, fail) ==
    \/ fail
    \/ req.method = "POST" /\ InsertConflict(store, novaCotacao(req.body, now))
    \/ req.method = "PUT" /\ UpdateConflict(store, req.path[3], UpdatePatch(req.body, now))

Watched(req, fail) ==
    /\ faults' = [last |-> GatewayFailed(req, fail),
                  seen |-> faults.seen \/ GatewayFailed(req, fail)]
    /\ UNCHANGED <<inflight, queries, apiVars, cacheVars>>

FaultList   == \E req \in ListReqs, fail \in BOOLEAN : Listar(req, fail) /\ Watched(req, fail)
FaultGetOne == \E req \in GetReqs, fail \in BOOLEAN : Buscar(req, fail) /\ Watched(req, fail)
FaultPost   == \E req \in PostReqs, fail \in BOOLEAN : Criar(req, fail) /\ Watched(req, fail)
FaultPut    == \E req \in PutReqs, fail \in BOOLEAN : Atualizar(req, fail) /\ Watched(req, fail)
FaultDelete == \E req \in DeleteReqs, fail \in BOOLEAN : Excluir(req, fail) /\ Watched(req, fail)

NextFaults ==
    \/ Tick
    \/ FaultList
    \/ FaultGetOne
    \/ FaultPost
    \/ FaultPut
    \/ FaultDelete

SpecFaults == InitLoggedIn /\ [][NextFaults]_vars

(***************************************************************************)
(* SpecStatic: the boot secret SECRET_TOKEN in its two uses: the token     *)
(* issue of src/server.js, and the middleware of the earlier server        *)
(* (src/unnamed/part_001, second file) that compares every request's       *)
(* credential with it.                                                     *)
(***************************************************************************)
Credentials == {Undefined, BootSecret, "wrong"}

\* a request as the static-token middleware reads it: the Authorization
\* header and the token of the query string
StaticRequest(method, path, authorization, token) ==
    [method |-> method, path |-> path, cookie |-> NoSid,
     authorization |-> authorization, token |-> token, body |-> EmptyObject]

StaticGateReqs ==
    {StaticRequest(m, p, a, q) :
        m \in {"GET", "HEAD"}, p \in {RootPath, CotacoesPath, StaticPath},
        a \in Credentials, q \in Credentials}

\* req.headers['authorization'] || req.query.token || req.cookies?.token;
\* the server mounts no cookie parser, so req.cookies is undefined
StaticToken(req) ==
    IF req.authorization # Undefined THEN req.authorization
    ELSE IF req.token # Undefined THEN req.token
    ELSE Undefined

\* req.path.startsWith('/css') || ... || req.path.startsWith('/favicon')
IsAssetPath(path) == Len(path) > 0 /\ Head(path) \in StaticPrefixes

\* if (asset path) return next(); if (token === process.env.SECRET_TOKEN) next(); else 401
StaticGate(req) ==
    IF IsAssetPath(req.path) THEN "next"
    ELSE IF StaticToken(req) = envSecret THEN "next"
    ELSE "deny"

\* res.status(401).send(`<!DOCTYPE html> ...`)
StaticBlock(req) ==
    /\ StaticGate(req) = "deny"
    /\ reply' = AccessDeniedPage(req)
    /\ calls' = {}
    /\ UNCHANGED <<now, nextSweep, authVars, storeVars, histVars>>

\* app.get('/'): the API document
StaticRoot(req) ==
    /\ StaticGate(req) = "next"
    /\ req.method = "GET" /\ req.path = RootPath
    /\ reply' = Json(req, 200, [status         |-> "online",
                                authentication |-> "Ativada",
                                timestamp      |-> toISOString(now)])
    /\ calls' = {}
    /\ UNCHANGED <<now, nextSweep, authVars, storeVars, histVars>>

\* app.head('/api/cotacoes', (req, res) => { res.status(200).end(); })
StaticHead(req) ==
    /\ StaticGate(req) = "next"
    /\ req.method = "HEAD" /\ req.path = CotacoesPath
    /\ reply' = Empty(req, 200)
    /\ calls' = {}
    /\ UNCHANGED <<now, nextSweep, authVars, storeVars, histVars>>

StaticDeny    == \E req \in StaticGateReqs : StaticBlock(req) /\ UNCHANGED <<inflight, others>>
StaticGetRoot == \E req \in StaticGateReqs : StaticRoot(req) /\ UNCHANGED <<inflight, others>>
StaticProbe   == \E req \in StaticGateReqs : StaticHead(req) /\ UNCHANGED <<inflight, others>>

NextStatic ==
    \/ Tick
    \/ Sweep
    \/ IssueToken
    \/ StaticDeny
    \/ StaticGetRoot
    \/ StaticProbe

SpecStatic == Init /\ [][NextStatic]_vars

(***************************************************************************)
(* SpecLive: the life of a token in the registry, over two sweep           *)
(* intervals.  The clock keeps advancing and the setInterval callback      *)
(* keeps running when it is due (weak fairness of both); tokens are issued *)
(* while a sweep that can purge them still lies inside the time bound.     *)
(***************************************************************************)
\* time passes, up to the moment the sweep is due
TickLive ==
    /\ now < nextSweep
    /\ Min(now + TickMs, nextSweep) <= LiveTime
    /\ now' = Min(now + TickMs, nextSweep)
    /\ UNCHANGED <<nextSweep, authVars, storeVars, inflight, reply, histVars, calls, others>>

\* setInterval(() => { ... }, 60000), while the clock runs
SweepLive == now <= LiveTime /\ Sweep

IssueLive ==
    /\ now + TokenWindowMs < LiveTime
    /\ GenerateToken(envSecret)

\* page loads of visitors without a session, each with a token in its link
RedeemLive == \E req \in ConcReqs : RedeemToken(req) /\ UNCHANGED <<inflight, others>>

NextLive ==
    \/ TickLive
    \/ SweepLive
    \/ IssueLive
    \/ RedeemLive

SpecLive ==
    /\ InitConfigured
    /\ [][NextLive]_vars
    /\ WF_vars(TickLive)
    /\ WF_vars(SweepLive)

(***************************************************************************)
(* Properties.                                                             *)
(***************************************************************************)
\* a step that handles a request leaves that request, with its response, in
\* reply; a step that repeats the last request and its status without changing
\* the store, the sessions or the issued tokens has nothing new to judge
Handled ==
    \/ reply'.req # reply.req
    \/ reply'.status # reply.status
    \/ store' # store
    \/ sessions' # sessions
    \/ issued' # issued

\* the request reached the middleware's token check: its path is not public
\* and its session, if any, is not authenticated
SessionLess(req) == ~IsPublicPath(req.path) /\ ~SessionActive(req)

\* C1: a session-less request that presents a token which is in the registry
\* and unused is granted: the token becomes used, a session is authenticated
\* with the login time, and the answer is a redirect to the path without the
\* query string.  A session-less request that presents a token which was
\* granted before is answered 401 and no session is created.
C1_RedeemOnce ==
    [][ (Handled /\ SessionLess(reply'.req) /\ PresentedToken(reply'.req) \in Tokens) =>
        LET req == reply'.req
            t   == PresentedToken(req)
        IN  /\ (t \in DOMAIN tempTokens /\ ~tempTokens[t].used) =>
                  /\ reply'.status = 302
                  /\ reply'.kind = "redirect"
                  /\ reply'.body.location = req.path
                  /\ tempTokens'[t].used
                  /\ \E sid \in DOMAIN sessions' \ DOMAIN sessions :
                        /\ sessions'[sid].authenticated
                        /\ sessions'[sid].loginTime = toISOString(now)
            /\ granted[t] >= 1 =>
                  /\ reply'.status = 401
                  /\ sessions' = sessions
                  /\ granted' = granted
      ]_vars

\* C1 witness: a token was granted once, and a later session-less request with
\* it was answered 401 while the token was still registered and inside its
\* 30 seconds
C1_Witness ==
    \E t \in DOMAIN tempTokens :
        /\ granted[t] = 1
        /\ now - tempTokens[t].createdAt <= TokenWindowMs
        /\ reply.status = 401
        /\ reply.req.cookie = NoSid
        /\ PresentedToken(reply.req) = t

\* C2: a session-less request that presents a registered token more than 30
\* seconds after its creation is answered 401 and gets no session.
C2_ExpiredRejected ==
    [][ (Handled /\ SessionLess(reply'.req) /\ PresentedToken(reply'.req) \in DOMAIN tempTokens) =>
        LET t == PresentedToken(reply'.req)
        IN  now - tempTokens[t].createdAt > TokenWindowMs =>
               /\ reply'.status = 401
               /\ sessions' = sessions
      ]_vars

\* C3: no token is granted twice, and once a token was granted no request
\* in flight that presents it can still be granted.
C3_AtMostOneGrant ==
    /\ \A t \in Tokens : granted[t] <= 1
    /\ \A c \in DOMAIN inflight :
          LET t == PresentedToken(inflight[c])
          IN  granted[t] >= 1 => GateOutcome(inflight[c]) = "deny"

\* C3 witness: two requests with one token were in flight together; one was
\* granted, the other was answered 401 after it
C3_Witness ==
    \E t \in raced :
        /\ granted[t] = 1
        /\ Presenting(t) = {}
        /\ reply.status = 401
        /\ PresentedToken(reply.req) = t

\* the request of the step reached a quote handler: the middleware let it pass
Served(method, n) ==
    /\ Handled
    /\ reply'.req.method = method
    /\ Len(reply'.req.path) = n
    /\ GateOutcome(reply'.req) = "next"

\* C4: an update that answers 200 leaves the id and the creation timestamp of
\* every stored record as they were.
C4_UpdateKeepsIdentity ==
    [][ (Served("PUT", 3) /\ reply'.status = 200) =>
        \A r \in DOMAIN store :
            /\ r \in DOMAIN store'
            /\ store'[r].id = store[r].id
            /\ store'[r].timestamp = store[r].timestamp
      ]_vars

\* C5: a DELETE the gateway executes answers 404 and changes nothing when no
\* record has the id; when a record has it, it removes that one record and
\* answers 204 with an empty body.
C5_DeleteFoundOrNot ==
    [][ (Served("DELETE", 3) /\ reply'.status # 500) =>
        LET found == Matching(store, reply'.req.path[3])
        IN  IF found = {}
            THEN reply'.status = 404 /\ store' = store
            ELSE /\ reply'.status = 204
                 /\ reply'.kind = "empty"
                 /\ Cardinality(found) = 1
                 /\ store' = [r \in DOMAIN store \ found |-> store[r]]
      ]_vars

\* C6: a stored record has an updatedAt field exactly when a successful
\* update has changed it since its creation.
C6_UpdatedAtIffModified ==
    \A r \in DOMAIN store : ("updatedAt" \in DOMAIN store[r]) <=> (r \in modified)

ServerFields == {"id", "timestamp", "negocioFechado"}

\* C7: a create the gateway accepts answers 201 with the stored record; its
\* id and timestamp are the server's (whatever the body supplied), its
\* negocioFechado is false when the body has none, and every other field is
\* the body's.
C7_CreateStamps ==
    [][ (Served("POST", 2) /\ reply'.status # 500) =>
        LET body == reply'.req.body
            rec  == reply'.body
        IN  /\ reply'.status = 201
            /\ DOMAIN rec = DOMAIN body \cup ServerFields
            /\ rec.id = ToString(now)
            /\ rec.timestamp = toISOString(now)
            /\ "negocioFechado" \notin DOMAIN body => rec.negocioFechado = FALSE
            /\ \A k \in DOMAIN body \ ServerFields : rec[k] = body[k]
            /\ \E r \in DOMAIN store' \ DOMAIN store :
                  /\ store'[r] = rec
                  /\ DOMAIN store' = DOMAIN store \cup {r}
                  /\ \A q \in DOMAIN store : store'[q] = store[q]
      ]_vars

\* C7 witness: a create whose body supplied an id and a timestamp answered 201
\* with a stored record
C7_Witness ==
    /\ reply.req.method = "POST"
    /\ reply.status = 201
    /\ "id" \in DOMAIN reply.req.body
    /\ "timestamp" \in DOMAIN reply.req.body
    /\ \E r \in DOMAIN store : store[r] = reply.body

\* C8: every create finds its identifier unused: no two stored records share
\* an id, and no create is refused because its id is taken.
C8_DistinctIds ==
    [][ Served("POST", 2) =>
        /\ Matching(store, ToString(now)) = {}
        /\ ~HasDuplicateId(store')
      ]_vars

\* C9: a listing that answers 200 holds every stored record once, newest
\* timestamp first; with no record removed it holds as many records as
\* creates have succeeded, and none when there was none.
C9_ListAllNewestFirst ==
    (reply.req.method = "GET" /\ reply.req.path = CotacoesPath /\ reply.status = 200) =>
        LET data == reply.body
        IN  /\ Len(data) = Cardinality(DOMAIN store)
            /\ \A r \in DOMAIN store :
                  Cardinality({i \in 1..Len(data) : data[i] = store[r]}) =
                  Cardinality({q \in DOMAIN store : store[q] = store[r]})
            /\ \A i, j \in 1..Len(data) :
                  i < j => data[i].timestamp.iso >= data[j].timestamp.iso
            /\ DOMAIN store = 1..rows => Len(data) = rows

\* C9 witness: two creates at different times, no delete, then a listing of
\* the two records
C9_Witness ==
    /\ reply.req.method = "GET" /\ reply.req.path = CotacoesPath /\ reply.status = 200
    /\ rows = 2 /\ DOMAIN store = 1..2
    /\ Len(reply.body) = 2
    /\ reply.body[1].timestamp.iso > reply.body[2].timestamp.iso

\* C10: a GET of the id of a created record answers 200 with that record, and
\* once a DELETE of the id has answered 204, every GET of it that the gateway
\* executes answers 404 with an error field.
C10_GetAfterDelete ==
    [][ (Served("GET", 3) /\ reply'.status # 500) =>
        LET id    == reply'.req.path[3]
            found == Matching(store, id)
        IN  /\ id \in deleted =>
                  reply'.status = 404 /\ "error" \in DOMAIN reply'.body
            /\ (id \notin deleted /\ found # {}) =>
                  reply'.status = 200 /\ \E r \in found : reply'.body = store[r]
      ]_vars

\* the step handles again the read that was handled last: the same GET of the
\* collection or of a record, answered 200 both times, nothing handled in
\* between, inside the ttl of an entry the first read would have stored
ReadAgain ==
    /\ reply.req.method = "GET" /\ Len(reply.req.path) \in {2, 3}
    /\ reply.status = 200
    /\ reply'.req = reply.req /\ reply'.status = 200
    /\ now' = now
    /\ now <= DefaultTtlS * 1000

Wrote(method, status) == reply.req.method = method /\ reply.status = status

\* the step handles a read that the gateway answers
ReadsList == Served("GET", 2) /\ reply'.req.path = CotacoesPath /\ reply'.status # 500
ReadsItem(id) == Served("GET", 3) /\ reply'.req.path = ItemPath(id) /\ reply'.status # 500

InList(rec, data) == \E i \in 1..Len(data) : data[i] = rec

\* C12: the read that follows a successful write shows the write: the record
\* created or updated is in the listing and is what a GET of its id returns;
\* a deleted id is in no listing and its GET answers 404.
C12_ReadAfterWrite ==
    [][ /\ (Wrote("POST", 201) \/ Wrote("PUT", 200)) =>
            /\ ReadsList => (reply'.status = 200 /\ InList(reply.body, reply'.body))
            /\ ReadsItem(reply.body.id) =>
                  (reply'.status = 200 /\ reply'.body = reply.body)
        /\ Wrote("DELETE", 204) =>
            /\ ReadsList =>
                  /\ reply'.status = 200
                  /\ \A i \in 1..Len(reply'.body) : reply'.body[i].id # reply.req.path[3]
            /\ ReadsItem(reply.req.path[3]) => reply'.status = 404
      ]_vars

\* C12 witness: a record was updated and then read by its id; the answer
\* carries the update
C12_Witness ==
    /\ reply.req.method = "GET" /\ Len(reply.req.path) = 3 /\ reply.status = 200
    /\ \E r \in modified : r \in DOMAIN store /\ store[r] = reply.body
    /\ "updatedAt" \in DOMAIN reply.body

\* the step handles a create, an update or a delete
ServedWrite == Served("POST", 2) \/ Served("PUT", 3) \/ Served("DELETE", 3)

\* C13: a write whose persistence operation succeeded (201, 200 or 204) is
\* followed, in the same request, by the invalidation of the collection's
\* cache entry; a write whose persistence operation failed invalidates nothing.
C13_InvalidateAfterSuccess ==
    [][ ServedWrite =>
        /\ reply'.status \in {200, 201, 204} =>
              (calls' \cap GatewayOps # {} /\ "clearCache" \in calls')
        /\ reply'.status = 500 => "clearCache" \notin calls'
      ]_vars

RedisCommands == {"redis.get", "redis.set", "redis.del", "redis.keys", "redis.flushdb", "redis.ping"}

\* C14: no cache call raises to its caller; without a configured backend, or
\* when the backend command failed, getCache returns null and setCache,
\* clearCache and healthCheck return false; without a configured backend no
\* command is sent, and the module goes on answering.
C14_CacheNeverRaises ==
    /\ ~ret.raised
    /\ (ret.call # "none" /\ (~redis \/ ret.threw)) =>
          ret.value = (IF ret.call = "getCache" THEN Null ELSE "false")
    /\ (ret.call # "none" /\ ~redis) =>
          (calls \cap RedisCommands = {} /\ cacheStore = EmptyObject)

\* C14 witness: a command failed on a configured backend that holds an entry,
\* and the caller got the fallback value
C14_Witness ==
    /\ redis /\ ret.threw /\ ret.call = "getCache" /\ ret.value = Null
    /\ ret.key \in Live(cacheStore, now)

\* the step handles a request to the API server
ApiHandled == Handled /\ "authorization" \in DOMAIN reply'.req

\* C15: a request that a gate answers with 401 or 403 reaches no handler: no
\* gateway operation is made for it and the table is unchanged.
C15_RejectedNoPersistence ==
    [][ (Handled /\ reply'.status \in {401, 403}) =>
        /\ calls' \cap GatewayOps = {}
        /\ store' = store
        /\ rows' = rows
      ]_vars

\* C15 witness: a request was rejected with 403 while the table held a record
C15_Witness ==
    /\ reply.status = 403
    /\ reply.req.method = "POST"
    /\ DOMAIN store # {}
    /\ calls = {}

\* the token is a signed token that verifies against the shared secret now
Verifies(tk) ==
    /\ tk.jwt
    /\ SECRET_KEY(apiEnv) # Undefined
    /\ tk.key = SECRET_KEY(apiEnv)
    /\ now \div 1000 < tk.exp

\* C18: a token that verifies as a signed token is let through with the
\* identity of its claims; otherwise a token equal to the static token is let
\* through as the API user; otherwise the request is answered 401 or 403 and
\* no handler runs.
C18_VerifiersInOrder ==
    [][ ApiHandled =>
        LET h  == reply'.req.authorization
            tk == BearerToken(h)
        IN  IF ~HeaderMissing(h) /\ Verifies(tk)
            THEN reply'.status \notin {401, 403} /\ user' = tk.claims
            ELSE IF ~HeaderMissing(h) /\ ~tk.jwt /\ tk.text # "" /\ tk.text = apiEnv.API_TOKEN
            THEN reply'.status \notin {401, 403} /\ user' = ApiUser
            ELSE /\ reply'.status \in {401, 403}
                 /\ user' = NoUser
                 /\ calls' = {}
                 /\ store' = store
      ]_vars

\* C18 witness: with JWT_SECRET unset, a token signed with the static token
\* verified and its claims became the identity of a request that was served
C18_Witness ==
    /\ apiEnv.JWT_SECRET = Undefined
    /\ "authorization" \in DOMAIN reply.req
    /\ reply.req.authorization.token.jwt
    /\ reply.status = 200
    /\ user = AdminClaims

\* C19: a request the signed-token gate rejects is answered 401 when its
\* credential is missing or expired, and 403 when its token is malformed or
\* invalid.
C19_RejectStatus ==
    [][ (ApiHandled /\ reply'.status \in {401, 403}) =>
        LET h       == reply'.req.authorization
            tk      == BearerToken(h)
            missing == HeaderMissing(h) \/ tk = Opaque("")
            expired == /\ ~missing /\ tk.jwt /\ tk.key = SECRET_KEY(apiEnv)
                       /\ now \div 1000 >= tk.exp
        IN  reply'.status = (IF missing \/ expired THEN 401 ELSE 403)
      ]_vars

\* C20: no request is answered by an API server that runs without its
\* shared secret.
C20_NoServiceWithoutSecret ==
    "authorization" \in DOMAIN reply.req => SECRET_KEY(apiEnv) # Undefined

\* the request is one the gate is to let through without looking at the
\* caller: its path is on the public list or its method is HEAD
Exempt(req) == IsPublicPath(req.path) \/ req.method = "HEAD"

\* the gate's own answers: the access-denied page and the redirect
GateStopped(r) == r.kind \in {"html", "redirect"}

\* C16: a request whose path is public (static asset, /health,
\* /api/auth/generate-token) or whose method is HEAD is never stopped by the
\* authentication middleware, with or without a session; HEAD /api/cotacoes
\* is answered 200 with an empty body whatever the caller's session.
C16_ProbesPassGate ==
    [][(Handled /\ Exempt(reply'.req)) =>
          /\ ~GateStopped(reply')
          /\ (reply'.req.method = "HEAD" /\ reply'.req.path = CotacoesPath)
                 => reply' = Empty(reply'.req, 200)]_vars

\* the session of the cookie was marked authenticated by a redemption
Authenticated(c) == c \in DOMAIN sessions /\ sessions[c].authenticated

\* C17: every request that carries the cookie of a session marked
\* authenticated passes the middleware (it is neither answered the
\* access-denied page nor redirected) without presenting a token, also when
\* the redeemed token is used, older than 30 seconds or swept.
C17_SessionKeepsPassing ==
    [][(Handled /\ Authenticated(reply'.req.cookie)) => ~GateStopped(reply')]_vars

\* a page load of a session, without token, was served after the sweep had
\* emptied the registry
C17_Witness ==
    /\ reply.kind = "json" /\ reply.status = 200
    /\ reply.req.method = "GET" /\ reply.req.path = RootPath
    /\ Authenticated(reply.req.cookie)
    /\ PresentedToken(reply.req) = NoToken
    /\ reply.body.sessionActive
    /\ reply.body.timestamp.iso >= SweepIntervalMs
    /\ issued >= 1
    /\ tempTokens = EmptyObject

\* the body carries a secret and it is the boot secret the server was
\* configured with
SecretMatches(req) ==
    /\ envSecret # Undefined
    /\ req.body.secret = envSecret

\* C21: POST /api/auth/generate-token answers {success: true, token,
\* expiresIn: 30} and adds one new entry, unused and created now, to the
\* registry exactly when the secret of the body matches the configured boot
\* secret; otherwise it answers 401 and leaves the registry unchanged.
C21_IssueIffSecret ==
    [][ (Handled /\ reply'.req.path = TokenPath) =>
        IF SecretMatches(reply'.req)
        THEN /\ reply'.status = 200
             /\ reply'.body.success /\ reply'.body.expiresIn = 30
             /\ reply'.body.token \notin DOMAIN tempTokens
             /\ DOMAIN tempTokens' = DOMAIN tempTokens \cup {reply'.body.token}
             /\ tempTokens'[reply'.body.token] = [createdAt |-> now, used |-> FALSE]
             /\ \A k \in DOMAIN tempTokens : tempTokens'[k] = tempTokens[k]
        ELSE /\ reply'.status = 401
             /\ tempTokens' = tempTokens
      ]_vars

\* the step is a run of the periodic sweep
Swept == nextSweep' # nextSweep

\* C22: immediately after every sweep the registry holds no token older than
\* 30 seconds, used or unused, and every token that is not older than 30
\* seconds is still registered with its used flag (and creation time) as
\* before.
C22_SweepPurgesByAge ==
    [][ Swept =>
        /\ \A k \in DOMAIN tempTokens' :
              now' - tempTokens'[k].createdAt <= TokenWindowMs
        /\ \A k \in DOMAIN tempTokens :
              now - tempTokens[k].createdAt <= TokenWindowMs =>
                 /\ k \in DOMAIN tempTokens'
                 /\ tempTokens'[k] = tempTokens[k]
      ]_vars

\* right after a sweep: a used token older than 30 seconds is gone and a
\* younger token is still registered
C22_Witness ==
    /\ now = SweepIntervalMs /\ nextSweep = 2 * SweepIntervalMs
    /\ \E gone \in Tokens, kept \in DOMAIN tempTokens :
          /\ gone <= issued /\ gone \notin DOMAIN tempTokens
          /\ granted[gone] = 1
          /\ now - tempTokens[kept].createdAt <= TokenWindowMs

\* C23: whenever the persistence gateway reports a failure other than
\* not-found during a list, read, create, update or delete request, the
\* handler answers 500 with a JSON body that has an error field; the failure
\* is caught in the handler, so after any failure the server still takes and
\* handles requests.
C23_GatewayFailureIs500 ==
    /\ faults.last =>
          /\ reply.status = 500
          /\ reply.kind = "json"
          /\ "error" \in DOMAIN reply.body
    /\ faults.seen => ENABLED FaultList

\* after a failure of the gateway a later request was served
C23_Witness ==
    /\ faults.seen /\ ~faults.last
    /\ reply.status \in {200, 201}
    /\ reply.req.method \in {"GET", "POST"}

\* C24: every failure response (401, 403, 404, 500), of every endpoint and
\* of the authentication middleware, is a JSON body with at least an error
\* field (the middleware's 401 carrying the explanatory page besides).
C24_FailuresAreJson ==
    reply.status \in {401, 403, 404, 500} =>
        /\ reply.kind = "json"
        /\ "error" \in DOMAIN reply.body

\* the update leaves the client's own fields aside: it sends no timestamp
OwnFieldsOnly(req) == "timestamp" \notin DOMAIN req.body

\* C25: after every successful PUT /api/cotacoes/:id the record's update
\* timestamp is strictly later than its creation timestamp, also when the
\* update is handled in the clock tick of the creation.
C25_UpdatedAfterCreated ==
    [][ (Handled /\ reply'.req.method = "PUT" /\ reply'.status = 200
                 /\ OwnFieldsOnly(reply'.req)) =>
            reply'.body.updatedAt.iso > reply'.body.timestamp.iso
      ]_vars

\* a request to the static-token middleware that presents no credential and
\* whose path is not an asset path
NoCredential(req) ==
    /\ "token" \in DOMAIN req
    /\ StaticToken(req) = Undefined
    /\ ~IsAssetPath(req.path)

\* C26: while SECRET_TOKEN is not configured no token is issued by
\* POST /api/auth/generate-token, whatever the body (a body without a secret
\* included), and the static-token middleware answers 401 to every request
\* that presents no credential.
C26_NoAccessWithoutBootSecret ==
    [][ envSecret = Undefined =>
          /\ issued' = issued
          /\ (Handled /\ NoCredential(reply'.req)) => reply'.status = 401
      ]_vars

\* a step of the portal server that handles a request through the
\* middleware: not the sweep, not the clock, not the token issue
GateStep ==
    /\ nextSweep' = nextSweep /\ now' = now
    /\ reply'.req.path # TokenPath
    /\ Handled \/ tempTokens' # tempTokens

\* C27: the middleware of src/server.js changes the registry and the
\* sessions only when it redeems a token: a request answered 401, a request
\* on a public path, and a request of an authenticated session (also one that
\* presents an unused registered token) leave the registered tokens, their
\* used flags and every session's authenticated flag as they were.
C27_GateFrame ==
    [][ (GateStep /\ \/ reply'.status = 401
                     \/ IsPublicPath(reply'.req.path)
                     \/ Authenticated(reply'.req.cookie)) =>
            /\ tempTokens' = tempTokens
            /\ sessions' = sessions
      ]_vars

\* a page load of an authenticated session that presented a token which was
\* registered before and is still unused
C27_Witness ==
    /\ reply.kind = "json" /\ reply.status = 200
    /\ reply.req.path = RootPath
    /\ Authenticated(reply.req.cookie)
    /\ PresentedToken(reply.req) \in DOMAIN tempTokens
    /\ ~tempTokens[PresentedToken(reply.req)].used
    /\ reply.body.timestamp.iso > tempTokens[PresentedToken(reply.req)].createdAt

\* no registered token is older than the 30-second window plus one sweep
\* interval
StayBounded ==
    \A k \in DOMAIN tempTokens :
        now - tempTokens[k].createdAt <= TokenWindowMs + SweepIntervalMs

\* C28: every token that is issued is eventually removed from the registry,
\* used or not, while the sweep keeps running; and no token stays
\* registered for more than the 30-second window plus one 60-second sweep
\* interval.
C28_TokensLeave ==
    /\ []StayBounded
    /\ \A t \in Tokens : (t \in DOMAIN tempTokens) ~> (t \notin DOMAIN tempTokens)

\* a token that was redeemed and a token that never was have both been
\* issued and have both left the registry
C28_Witness ==
    /\ tempTokens = EmptyObject
    /\ \E u, v \in 1..issued : granted[u] = 1 /\ granted[v] = 0

\* a call of clearCache that went through: the backend is configured and no
\* command failed
Cleared ==
    /\ ret'.call = "clearCache" /\ ret'.value = "true"
    /\ now' = now
    /\ ret' # ret \/ cacheStore' # cacheStore \/ calls' # calls

\* the call was made to the clearCache of src/cache.js
ClearedAggregate == Cleared /\ calls' = {"redis.del"}

\* the call was made to the clearCache of the pattern-capable variant
ClearedByPattern == Cleared /\ calls' \cap {"redis.keys", "redis.flushdb"} # {}

\* the key matches the pattern (the model's patterns: 'cotacoes:*' or a key)
KeyMatches(k, pattern) == pattern = "cotacoes:*" \/ k = pattern

\* exactly the entries in gone are deleted, and every other entry is as before
DeletesExactly(gone) ==
    /\ Live(cacheStore', now) = Live(cacheStore, now) \ gone
    /\ \A k \in Live(cacheStore', now) : cacheStore'[k] = cacheStore[k]

====
